---- MODULE Spec2Model ----
(***************************************************************************)
(* Model of the /ask streaming relay of server.js.                         *)
(*                                                                         *)
(* One inbound request is a process with a position pc:                    *)
(*   idle -> (closed | opening) -> (closed | streaming)                    *)
(*        -> (closed | returning -> closed)                                *)
(* The async handler runs in synchronous segments separated by its awaits  *)
(* (the await of the stream() call, and one await per iterator pull), so   *)
(* each action below is one such segment, run to its next await or return. *)
(* The upstream provider and the downstream client are the environment.    *)
(*                                                                         *)
(* express.json() either parses the body into an object, whose question    *)
(* and imageUrl are absent or strings, or rejects it, and then the error   *)
(* middleware answers instead of the handler.  A delta content is absent,  *)
(* null or a string; a string is its sequence of UTF-16 code units.        *)
(***************************************************************************)
EXTENDS Integers, Sequences, FiniteSets, TLC

(* ------------------------------ bounds --------------------------------- *)
\* upstream chunks delivered to one request (single-request specification)
MaxChunks == 3
\* concurrent requests
MaxRequests == 2
\* upstream chunks delivered to all the concurrent requests together
ConcTotalChunks == 3
\* upstream chunks delivered to one request in the fair specification
ConcMaxChunks == 2

(* --------------------------- JavaScript values ------------------------- *)
\* an optional string field of req.body
Absent == [present |-> FALSE, text |-> ""]
Str(s) == [present |-> TRUE, text |-> s]

\* !v for an absent-or-string value: undefined and "" are falsy
FalsyUndefinedOnly(v) == ~v.present
Falsy(v) == ~v.present \/ v.text = ""

\* delta.content: undefined, null or a string (a sequence of code units)
NoContent == [kind |-> "undefined", text |-> <<>>]
NullContent == [kind |-> "null", text |-> <<>>]
Content(s) == [kind |-> "string", text |-> s]

\* if (content): only a non-empty string is truthy
TruthyDefined(c) == c.kind # "undefined"
Truthy(c) == c.kind = "string" /\ c.text # <<>>

\* an upstream chunk: choices is undefined, [] or [{delta}], delta is
\* undefined or {content}
NoChoices == [choices |-> "undefined", delta |-> "undefined", content |-> NoContent]
EmptyChoices == [choices |-> "empty", delta |-> "undefined", content |-> NoContent]
NoDelta == [choices |-> "one", delta |-> "undefined", content |-> NoContent]
Delta(c) == [choices |-> "one", delta |-> "object", content |-> c]

\* chunk.choices[0] throws a TypeError when choices is undefined
ChoicesThrows(chunk) == chunk.choices = "undefined"

\* chunk.choices[0]?.delta?.content
ContentOf(chunk) ==
    IF chunk.choices = "empty" \/ chunk.delta = "undefined"
    THEN NoContent
    ELSE chunk.content

(* ------------------------------ messages -------------------------------- *)
model == "google/gemini-2.0-flash-exp:free"
DefaultPrompt == "What is in this image?"
SystemPrompt == "You are a helpful legal assistant. Provide clear, concise, and accurate information. Your answers should be in the same language as the user's question (English, French, or Arabic)."

NoParts == <<>>
TextPart(t) == [type |-> "text", text |-> t, url |-> ""]
ImagePart(u) == [type |-> "image_url", text |-> "", url |-> u]
TextMessage(role, t) == [role |-> role, shape |-> "text", content |-> t, parts |-> NoParts]
PartsMessage(role, ps) == [role |-> role, shape |-> "parts", content |-> "", parts |-> ps]

\* the messages of the call, chosen by the truthiness of imageUrl
BuildMessagesAlwaysSystem(question, imageUrl) ==
    IF ~Falsy(imageUrl)
    THEN << TextMessage("system", SystemPrompt),
            PartsMessage("user",
               << TextPart(IF Falsy(question) THEN DefaultPrompt ELSE question.text),
                  ImagePart(imageUrl.text) >>) >>
    ELSE << TextMessage("system", SystemPrompt),
            TextMessage("user", question.text) >>

BuildMessages(question, imageUrl) ==
    IF ~Falsy(imageUrl)
    THEN << PartsMessage("user",
               << TextPart(IF Falsy(question) THEN DefaultPrompt ELSE question.text),
                  ImagePart(imageUrl.text) >>) >>
    ELSE << TextMessage("system", SystemPrompt),
            TextMessage("user", question.text) >>

\* the argument of openrouter.chat.completions.stream
StreamCall(messages) == [model |-> model, messages |-> messages, stream |-> TRUE]
NoCall == <<>>

(* --------------------------- SSE event framing -------------------------- *)
\* strings written to the response are sequences of UTF-16 code units
RECURSIVE Flatten(_)
Flatten(ss) == IF ss = <<>> THEN <<>> ELSE Head(ss) \o Flatten(Tail(ss))

\* one lowercase hexadecimal digit
HexDigit(n) == IF n < 10 THEN 48 + n ELSE 87 + n

\* the \uXXXX escape of a code unit
UnicodeEscape(c) ==
    << 92, 117, HexDigit(c \div 4096), HexDigit((c \div 256) % 16),
       HexDigit((c \div 16) % 16), HexDigit(c % 16) >>

IsHighSurrogate(c) == c >= 55296 /\ c <= 56319
IsLowSurrogate(c) == c >= 56320 /\ c <= 57343

\* JSON.stringify of one code unit that is not a surrogate: \b \t \n \f \r,
\* \" and \\ get their short escape, any other control character \u00xx
EscapeCharNone(c) == <<c>>
EscapeChar(c) ==
    IF c = 8 THEN <<92, 98>>
    ELSE IF c = 9 THEN <<92, 116>>
    ELSE IF c = 10 THEN <<92, 110>>
    ELSE IF c = 12 THEN <<92, 102>>
    ELSE IF c = 13 THEN <<92, 114>>
    ELSE IF c = 34 THEN <<92, 34>>
    ELSE IF c = 92 THEN <<92, 92>>
    ELSE IF c < 32 THEN UnicodeEscape(c)
    ELSE <<c>>

\* JSON.stringify of the code unit at position i of s: a surrogate that is
\* half of a pair is kept, a lone surrogate is written as \udxxx
EscapeUnit(s, i) ==
    IF IsHighSurrogate(s[i])
    THEN IF i < Len(s) /\ IsLowSurrogate(s[i + 1]) THEN <<s[i]>> ELSE UnicodeEscape(s[i])
    ELSE IF IsLowSurrogate(s[i])
    THEN IF i > 1 /\ IsHighSurrogate(s[i - 1]) THEN <<s[i]>> ELSE UnicodeEscape(s[i])
    ELSE EscapeChar(s[i])

\* JSON.stringify of a string
JSONString(s) == <<34>> \o Flatten([i \in 1..Len(s) |-> EscapeUnit(s, i)]) \o <<34>>

\* JSON.stringify({ chunk: content }):  {"chunk":"..."}
JSONChunk(s) == <<123>> \o JSONString(<<99, 104, 117, 110, 107>>) \o <<58>> \o JSONString(s) \o <<125>>

\* "data: "
DataPrefix == <<100, 97, 116, 97, 58, 32>>
\* "\n\n"
EventEnd == <<10, 10>>

\* `data: ${JSON.stringify({ chunk: content })}\n\n`
ChunkEvent(s) == DataPrefix \o JSONChunk(s) \o EventEnd

\* 'data: {"done": true}\n\n'
DoneEvent ==
    DataPrefix
    \o <<123, 34, 100, 111, 110, 101, 34, 58, 32, 116, 114, 117, 101, 125>>
    \o EventEnd

(* ------------------------------ the response ---------------------------- *)
RequiredError == "Question or Image URL is required."
InternalError == "An internal server error occurred."
NoJson == ""

\* a fresh ServerResponse: status 200, no headers, nothing written
NewResponse ==
    [status |-> 200, contentType |-> "", json |-> NoJson, written |-> <<>>, ended |-> FALSE]

\* res.status(code).json({ error: message })
ResJson(rs, code, message) ==
    [rs EXCEPT !.status = code, !.contentType = "application/json",
               !.json = message, !.ended = TRUE]

\* res.setHeader('Content-Type', value)
ResSetContentType(rs, value) == [rs EXCEPT !.contentType = value]

\* res.write(frame): one frame per call, refused once the response has ended
ResWrite(rs, frame) ==
    IF rs.ended THEN rs ELSE [rs EXCEPT !.written = Append(@, frame)]

\* res.end()
ResEndNoop(rs) == rs
ResEnd(rs) == [rs EXCEPT !.ended = TRUE]

\* the catch-all middleware: res.status(500).json({ error: ... })
ErrorMiddleware(rs) == ResJson(rs, 500, InternalError)

\* the catch block of /ask: log, then res.end()
CatchBlockDone(rs) == ResEnd(ResWrite(rs, DoneEvent))
CatchBlockNext(rs) == ErrorMiddleware(rs)
CatchBlock(rs) == ResEnd(rs)

\* lines 96-97: the done marker, then end
FinishStream(rs) == ResEnd(ResWrite(rs, DoneEvent))

(* -------------------------------- state --------------------------------- *)
VARIABLES
    pc,        \* position of each request's handler
    body,      \* req.body: [parsed, question, imageUrl]
    call,      \* the sequence of stream() calls made for the request
    pulls,     \* number of chunks requested from the upstream iterator
    upstream,  \* the chunks the upstream stream has delivered, in order
    outcome,   \* how the upstream call ended
    res,       \* the ServerResponse of the request
    client     \* the downstream client: connection state and frames received

vars == <<pc, body, call, pulls, upstream, outcome, res, client>>

Requests == DOMAIN pc

NewClient == [open |-> TRUE, received |-> <<>>]

\* req.body after express.json() parsed the body
Body(question, imageUrl) == [parsed |-> TRUE, question |-> question, imageUrl |-> imageUrl]
\* express.json() rejected the body: the handler never sees it
NoBody == [parsed |-> FALSE, question |-> Absent, imageUrl |-> Absent]

InitFor(ids) ==
    /\ pc = [r \in ids |-> "idle"]
    /\ body = [r \in ids |-> Body(Absent, Absent)]
    /\ call = [r \in ids |-> NoCall]
    /\ pulls = [r \in ids |-> 0]
    /\ upstream = [r \in ids |-> <<>>]
    /\ outcome = [r \in ids |-> "none"]
    /\ res = [r \in ids |-> NewResponse]
    /\ client = [r \in ids |-> NewClient]

Init == InitFor({1})
ConcInit == InitFor(1..MaxRequests)

(* ------------------------------- actions -------------------------------- *)
\* POST /ask arrives with a body express.json() cannot parse: express.json()
\* calls next(err), the route is skipped and the error middleware answers
AskMalformed(r) ==
    /\ pc[r] = "idle"
    /\ body' = [body EXCEPT ![r] = NoBody]
    /\ res' = [res EXCEPT ![r] = ErrorMiddleware(@)]
    /\ pc' = [pc EXCEPT ![r] = "closed"]
    /\ UNCHANGED <<call, pulls, upstream, outcome, client>>

\* POST /ask arrives: lines 49-84, up to the await of the stream() call
Ask(r, question, imageUrl) ==
    /\ pc[r] = "idle"
    /\ body' = [body EXCEPT ![r] = Body(question, imageUrl)]
    /\ IF Falsy(question) /\ Falsy(imageUrl)
       THEN /\ res' = [res EXCEPT ![r] = ResJson(@, 400, RequiredError)]
            /\ pc' = [pc EXCEPT ![r] = "closed"]
            /\ UNCHANGED call
       ELSE /\ res' = [res EXCEPT ![r] = ResSetContentType(@, "text/event-stream")]
            /\ call' = [call EXCEPT ![r] =
                          Append(@, StreamCall(BuildMessages(question, imageUrl)))]
            /\ pc' = [pc EXCEPT ![r] = "opening"]
    /\ UNCHANGED <<pulls, upstream, outcome, client>>

\* the stream() promise resolves: the for await loop asks for the first chunk
OpenOk(r) ==
    /\ pc[r] = "opening"
    /\ pc' = [pc EXCEPT ![r] = "streaming"]
    /\ pulls' = [pulls EXCEPT ![r] = @ + 1]
    /\ UNCHANGED <<body, call, upstream, outcome, res, client>>

\* the stream() call throws or rejects: the catch block runs
OpenFail(r) ==
    /\ pc[r] = "opening"
    /\ outcome' = [outcome EXCEPT ![r] = "openFailed"]
    /\ res' = [res EXCEPT ![r] = CatchBlock(@)]
    /\ pc' = [pc EXCEPT ![r] = "closed"]
    /\ UNCHANGED <<body, call, pulls, upstream, client>>

\* the iterator yields a chunk: one turn of the loop body, lines 87-93.  When
\* line 88 throws, for await first closes the iterator and awaits that: the
\* handler is suspended with the response still open
UpstreamChunkShared(r, chunk) ==
    /\ pc[r] = "streaming"
    /\ upstream' = [upstream EXCEPT ![r] = Append(@, chunk)]
    /\ IF ChoicesThrows(chunk)
       THEN /\ pc' = [pc EXCEPT ![r] = "returning"]
            /\ UNCHANGED <<pulls, res>>
       ELSE /\ LET t == CHOOSE q \in Requests : \A p \in Requests : q <= p
               IN res' = [res EXCEPT ![t] =
                            IF Truthy(ContentOf(chunk))
                            THEN ResWrite(@, ChunkEvent(ContentOf(chunk).text))
                            ELSE @]
            /\ pulls' = [pulls EXCEPT ![r] = @ + 1]
            /\ UNCHANGED pc
    /\ UNCHANGED <<body, call, outcome, client>>

UpstreamChunk(r, chunk) ==
    /\ pc[r] = "streaming"
    /\ upstream' = [upstream EXCEPT ![r] = Append(@, chunk)]
    /\ IF ChoicesThrows(chunk)
       THEN /\ pc' = [pc EXCEPT ![r] = "returning"]
            /\ UNCHANGED <<pulls, res>>
       ELSE /\ res' = [res EXCEPT ![r] =
                         IF Truthy(ContentOf(chunk))
                         THEN ResWrite(@, ChunkEvent(ContentOf(chunk).text))
                         ELSE @]
            /\ pulls' = [pulls EXCEPT ![r] = @ + 1]
            /\ UNCHANGED pc
    /\ UNCHANGED <<body, call, outcome, client>>

\* the iterator's return() settles after line 88 threw: the TypeError reaches
\* the catch block
IteratorReturned(r) ==
    /\ pc[r] = "returning"
    /\ res' = [res EXCEPT ![r] = CatchBlock(@)]
    /\ pc' = [pc EXCEPT ![r] = "closed"]
    /\ UNCHANGED <<body, call, pulls, upstream, outcome, client>>

\* the iterator is exhausted: lines 96-97
UpstreamComplete(r) ==
    /\ pc[r] = "streaming"
    /\ outcome' = [outcome EXCEPT ![r] = "completed"]
    /\ res' = [res EXCEPT ![r] = FinishStream(@)]
    /\ pc' = [pc EXCEPT ![r] = "closed"]
    /\ UNCHANGED <<body, call, pulls, upstream, client>>

\* the iterator rejects (the upstream connection drops): the catch block runs
UpstreamFail(r) ==
    /\ pc[r] = "streaming"
    /\ outcome' = [outcome EXCEPT ![r] = "failed"]
    /\ res' = [res EXCEPT ![r] = CatchBlock(@)]
    /\ pc' = [pc EXCEPT ![r] = "closed"]
    /\ UNCHANGED <<body, call, pulls, upstream, client>>

\* res.write only queues a frame; the socket hands the frames to a connected
\* client in later turns of the event loop, in the order written
SocketDeliver(r) ==
    /\ client[r].open
    /\ Len(client[r].received) < Len(res[r].written)
    /\ client' = [client EXCEPT ![r].received =
                     Append(@, res[r].written[Len(@) + 1])]
    /\ UNCHANGED <<pc, body, call, pulls, upstream, outcome, res>>

\* the downstream client goes away while the request is in flight or frames
\* are still queued; the handler registers no close listener, so nothing of
\* the handler's state changes
Disconnect(r) ==
    /\ \/ pc[r] \in {"opening", "streaming", "returning"}
       \/ Len(client[r].received) < Len(res[r].written)
    /\ client[r].open
    /\ client' = [client EXCEPT ![r].open = FALSE]
    /\ UNCHANGED <<pc, body, call, pulls, upstream, outcome, res>>

(* ---------------------------- input domains ----------------------------- *)
Fields == {Absent, Str(""), Str("q")}
Urls == {Absent, Str(""), Str("u")}

\* "a"
FragA == <<97>>
\* "b"
FragB == <<98>>
\* a quote, "b", tab, carriage return and the surrogate pair U+1F600
FragQuoted == <<34, 98, 9, 13, 55357, 56832>>
\* a lone low surrogate, backslash, newline, U+0001, \b, \f, U+001F and a lone
\* high surrogate
FragControl == <<56320, 92, 10, 1, 8, 12, 31, 55296>>

Fragments == {FragA, FragQuoted, FragControl}
Chunks ==
    {NoChoices, EmptyChoices, NoDelta, Delta(NoContent), Delta(NullContent),
     Delta(Content(<<>>))} \cup {Delta(Content(f)) : f \in Fragments}

ConcFields == {Absent, Str("q")}
ConcChunks == {Delta(Content(FragA)), Delta(Content(FragB))}
FairChunks == {Delta(Content(FragA)), NoChoices}
ClientChunks == {Delta(Content(FragA)), Delta(Content(FragQuoted)), NoChoices}

(* ---------------------------- specifications ---------------------------- *)
\* the continuation of request r that the event loop runs when the upstream
\* call makes progress: it opens, yields a chunk, completes or fails
Continue(r, chunks, bound) ==
    \/ OpenOk(r)
    \/ OpenFail(r)
    \/ \E c \in chunks : Len(upstream[r]) < bound /\ UpstreamChunk(r, c)
    \/ UpstreamComplete(r)
    \/ UpstreamFail(r)

\* one request, every kind of chunk, a client that may disconnect
Next ==
    \E r \in Requests :
        \/ \E q \in Fields, u \in Urls : Ask(r, q, u)
        \/ AskMalformed(r)
        \/ OpenOk(r)
        \/ OpenFail(r)
        \/ \E c \in Chunks : Len(upstream[r]) < MaxChunks /\ UpstreamChunk(r, c)
        \/ IteratorReturned(r)
        \/ UpstreamComplete(r)
        \/ UpstreamFail(r)
        \/ SocketDeliver(r)
        \/ Disconnect(r)

Spec == Init /\ [][Next]_vars

\* the number of chunks the upstream streams have delivered so far
RECURSIVE TotalChunks(_)
TotalChunks(ids) ==
    IF ids = {} THEN 0
    ELSE LET r == CHOOSE x \in ids : TRUE
         IN Len(upstream[r]) + TotalChunks(ids \ {r})

\* concurrent requests
ConcNext ==
    \E r \in Requests :
        \/ \E q \in ConcFields : Ask(r, q, Absent)
        \/ AskMalformed(r)
        \/ OpenOk(r)
        \/ OpenFail(r)
        \/ \E c \in ConcChunks :
              TotalChunks(Requests) < ConcTotalChunks /\ UpstreamChunk(r, c)
        \/ UpstreamComplete(r)
        \/ UpstreamFail(r)
        \/ SocketDeliver(r)

ConcSpec == ConcInit /\ [][ConcNext]_vars

FairNext ==
    \E r \in Requests :
        \/ \E q \in ConcFields : Ask(r, q, Absent)
        \/ AskMalformed(r)
        \/ Continue(r, FairChunks, ConcMaxChunks)
        \/ IteratorReturned(r)

\* every upstream call eventually delivers its next chunk, completes or fails,
\* and the event loop then runs the handler's continuation; nothing is assumed
\* of the iterator's return()
FairSpec ==
    /\ ConcInit
    /\ [][FairNext]_vars
    /\ \A r \in 1..MaxRequests : WF_vars(Continue(r, FairChunks, ConcMaxChunks))

ClientNext ==
    \E r \in Requests :
        \/ \E q \in ConcFields : Ask(r, q, Absent)
        \/ AskMalformed(r)
        \/ Continue(r, ClientChunks, MaxChunks)
        \/ IteratorReturned(r)
        \/ SocketDeliver(r)
        \/ Disconnect(r)

\* one request and its client: the socket eventually hands a queued frame to
\* a client that stays connected
ClientSpec ==
    /\ Init
    /\ [][ClientNext]_vars
    /\ WF_vars(SocketDeliver(1))

TypeOK ==
    /\ \A r \in Requests : pc[r] \in {"idle", "opening", "streaming", "returning", "closed"}
    /\ \A r \in Requests : outcome[r] \in {"none", "openFailed", "completed", "failed"}

(* ------------------- reading the response as a client ------------------- *)
\* what an SSE client does with a frame: strip "data: " and the blank line,
\* then JSON.parse the payload
\* data: {"chunk":"
ChunkOpen == <<100, 97, 116, 97, 58, 32, 123, 34, 99, 104, 117, 110, 107, 34, 58, 34>>
\* "}\n\n
ChunkClose == <<34, 125, 10, 10>>

IsHex(d) == (d >= 48 /\ d <= 57) \/ (d >= 97 /\ d <= 102) \/ (d >= 65 /\ d <= 70)
HexValue(d) == IF d <= 57 THEN d - 48 ELSE IF d >= 97 THEN d - 87 ELSE d - 55

\* the characters between the quotes of a JSON string literal: no raw quote or
\* control character, every backslash starts a defined escape
RECURSIVE ValidJSONChars(_)
ValidJSONChars(s) ==
    IF s = <<>> THEN TRUE
    ELSE IF Head(s) = 92
         THEN /\ Len(s) >= 2
              /\ IF s[2] = 117
                 THEN /\ Len(s) >= 6
                      /\ \A i \in 3..6 : IsHex(s[i])
                      /\ ValidJSONChars(SubSeq(s, 7, Len(s)))
                 ELSE /\ s[2] \in {34, 92, 47, 98, 102, 110, 114, 116}
                      /\ ValidJSONChars(SubSeq(s, 3, Len(s)))
         ELSE Head(s) >= 32 /\ Head(s) # 34 /\ ValidJSONChars(Tail(s))

\* the code unit a short escape stands for
Unescaped(e) ==
    IF e = 98 THEN 8 ELSE IF e = 116 THEN 9 ELSE IF e = 110 THEN 10
    ELSE IF e = 102 THEN 12 ELSE IF e = 114 THEN 13 ELSE e

RECURSIVE Unescape(_)
Unescape(s) ==
    IF s = <<>> THEN <<>>
    ELSE IF Head(s) = 92
         THEN IF s[2] = 117
              THEN << HexValue(s[3]) * 4096 + HexValue(s[4]) * 256
                      + HexValue(s[5]) * 16 + HexValue(s[6]) >>
                   \o Unescape(SubSeq(s, 7, Len(s)))
              ELSE << Unescaped(s[2]) >> \o Unescape(SubSeq(s, 3, Len(s)))
         ELSE << Head(s) >> \o Unescape(Tail(s))

ChunkPayload(f) == SubSeq(f, Len(ChunkOpen) + 1, Len(f) - Len(ChunkClose))

\* the frame is an event whose data parses to { chunk: <string> }
IsChunkFrame(f) ==
    /\ Len(f) >= Len(ChunkOpen) + Len(ChunkClose)
    /\ SubSeq(f, 1, Len(ChunkOpen)) = ChunkOpen
    /\ SubSeq(f, Len(f) - Len(ChunkClose) + 1, Len(f)) = ChunkClose
    /\ ValidJSONChars(ChunkPayload(f))

ChunkText(f) == Unescape(ChunkPayload(f))

\* the frame is an event whose data parses to { done: true }
IsDoneFrame(f) ==
    /\ Len(f) > 8
    /\ SubSeq(f, 1, 6) = <<100, 97, 116, 97, 58, 32>>
    /\ SubSeq(f, Len(f) - 1, Len(f)) = <<10, 10>>
    /\ SelectSeq(SubSeq(f, 7, Len(f) - 2), LAMBDA c : c # 32)
         = <<123, 34, 100, 111, 110, 101, 34, 58, 116, 114, 117, 101, 125>>

HasDone(w) == \E i \in 1..Len(w) : IsDoneFrame(w[i])

IsPrefix(a, b) == Len(a) <= Len(b) /\ SubSeq(b, 1, Len(a)) = a

\* a field of the request body is absent or the empty string
IsEmpty(v) == v.present => v.text = ""

\* an upstream chunk that carries a text fragment: choices[0].delta.content is a
\* non-empty string
IsFragment(chunk) ==
    /\ chunk.choices = "one"
    /\ chunk.delta = "object"
    /\ chunk.content.kind = "string"
    /\ chunk.content.text # <<>>

\* the text fragments of an upstream stream, in the order delivered
FragmentsOf(up) ==
    LET fs == SelectSeq(up, IsFragment) IN [i \in 1..Len(fs) |-> fs[i].content.text]

\* the first frames of w are chunk events carrying exactly the fragments fs
CarriesFragments(w, fs) ==
    /\ Len(w) >= Len(fs)
    /\ \A i \in 1..Len(fs) : IsChunkFrame(w[i]) /\ ChunkText(w[i]) = fs[i]

(* -------------------------------- C1 ------------------------------------ *)
\* C1: when the handler gets a body with both question and imageUrl absent or
\* empty, it answers 400 {error: 'Question or Image URL is required.'}; no
\* upstream call is made, no event-stream header is set and nothing is written
\* to the stream.
C1_Rejection ==
    \A r \in Requests :
        (pc[r] # "idle" /\ body[r].parsed
           /\ IsEmpty(body[r].question) /\ IsEmpty(body[r].imageUrl)) =>
            /\ res[r].status = 400
            /\ res[r].json = RequiredError
            /\ res[r].ended
            /\ call[r] = NoCall
            /\ pulls[r] = 0
            /\ res[r].contentType # "text/event-stream"
            /\ res[r].written = <<>>

C1_Witness ==
    \E r \in Requests :
        /\ pc[r] = "closed"
        /\ body[r] = [parsed |-> TRUE, question |-> Str(""), imageUrl |-> Absent]
        /\ res[r].status = 400

(* -------------------------------- C2 ------------------------------------ *)
\* C2: when the upstream stream completes normally, the chunk events written
\* are exactly the upstream fragments, one event per fragment in the order
\* received, followed by the done marker.
C2_FragmentOrder ==
    \A r \in Requests :
        outcome[r] = "completed" =>
            LET fs == FragmentsOf(upstream[r])
                w == res[r].written
            IN /\ Len(w) = Len(fs) + 1
               /\ CarriesFragments(w, fs)
               /\ IsDoneFrame(w[Len(w)])

C2_Witness ==
    \E r \in Requests :
        /\ outcome[r] = "completed"
        /\ FragmentsOf(upstream[r]) = << FragA, FragQuoted, FragControl >>
        /\ Len(res[r].written) = 4

(* -------------------------------- C3 ------------------------------------ *)
\* C3: when the stream() call fails before the first byte, the response is a
\* structured JSON error with a 5xx status, never switched to event-stream
\* mode, with no chunk or done event written.
C3_PreStreamError ==
    \A r \in Requests :
        outcome[r] = "openFailed" =>
            /\ res[r].status >= 500
            /\ res[r].json # NoJson
            /\ res[r].contentType # "text/event-stream"
            /\ res[r].written = <<>>

(* -------------------------------- C4 ------------------------------------ *)
\* what is written and received when the upstream stream failed
FailedStream(r) ==
    /\ outcome[r] = "failed" =>
          LET fs == FragmentsOf(upstream[r])
              w == res[r].written
          IN /\ Len(w) = Len(fs)
             /\ CarriesFragments(w, fs)
             /\ res[r].ended
             /\ res[r].json = NoJson
             /\ res[r].status = 200
             /\ IsPrefix(client[r].received, w)
    /\ outcome[r] \in {"failed", "openFailed"} =>
          ~HasDone(res[r].written) /\ ~HasDone(client[r].received)

\* C4: when the upstream stream delivers k fragments and then fails, exactly
\* those k chunk events are written in order, the response is ended with no
\* done marker and no JSON error payload, and a client that stays connected
\* comes to have received exactly those k events; a failed upstream call never
\* gets a done marker.
C4_MidStreamFailure ==
    /\ [](\A r \in Requests : FailedStream(r))
    /\ \A r \in {1} :
          [](outcome[r] = "failed" =>
                <>(~client[r].open \/ client[r].received = res[r].written))

C4_Witness ==
    \E r \in Requests :
        /\ outcome[r] = "failed"
        /\ FragmentsOf(upstream[r]) = << FragQuoted, FragA >>
        /\ client[r].open
        /\ Len(client[r].received) = 2
        /\ res[r].ended

(* -------------------------------- C5 ------------------------------------ *)
ImageShape(q, u) ==
    << [role |-> "user", shape |-> "parts", content |-> "",
        parts |-> << [type |-> "text", text |-> IF IsEmpty(q) THEN DefaultPrompt ELSE q.text,
                      url |-> ""],
                     [type |-> "image_url", text |-> "", url |-> u.text] >>] >>

TextShape(q) ==
    << [role |-> "system", shape |-> "text", content |-> SystemPrompt, parts |-> <<>>],
       [role |-> "user", shape |-> "text", content |-> q.text, parts |-> <<>>] >>

\* C5 as stated: the shape is chosen by the presence of imageUrl.
C5_ShapeByPresence ==
    \A r \in Requests :
        call[r] # NoCall =>
            /\ Len(call[r]) = 1
            /\ IF body[r].imageUrl.present
               THEN call[r][1].messages = ImageShape(body[r].question, body[r].imageUrl)
               ELSE ~IsEmpty(body[r].question) =>
                        call[r][1].messages = TextShape(body[r].question)

\* C5 (amended): the shape is chosen by whether imageUrl is non-empty: a
\* non-empty imageUrl gives one user message with a text part (question, or the
\* default prompt when question is empty) and an image part, with no system
\* message; an absent or empty imageUrl with a non-empty question gives the
\* system message followed by one user message equal to question.
C5_ShapeByNonEmpty ==
    \A r \in Requests :
        call[r] # NoCall =>
            /\ Len(call[r]) = 1
            /\ call[r][1].model = model
            /\ IF ~IsEmpty(body[r].imageUrl)
               THEN call[r][1].messages = ImageShape(body[r].question, body[r].imageUrl)
               ELSE /\ ~IsEmpty(body[r].question)
                    /\ call[r][1].messages = TextShape(body[r].question)

C5_Witness ==
    \E r \in Requests :
        /\ body[r].imageUrl = Str("")
        /\ body[r].question = Str("q")
        /\ call[r] # NoCall
        /\ Len(call[r][1].messages) = 2

(* -------------------------------- C6 ------------------------------------ *)
\* a done marker is the last frame, the upstream completed normally, and the
\* response was ended in the step that wrote it
DoneIsFinal(r) ==
    \A i \in 1..Len(res[r].written) :
        IsDoneFrame(res[r].written[i]) =>
            /\ i = Len(res[r].written)
            /\ outcome[r] = "completed"
            /\ res[r].ended

\* C6: the done marker is written at most once, only after the upstream stream
\* completed normally and after every chunk event, the response is ended with
\* it, and nothing is written to the response after it.
C6_DoneMarker ==
    /\ [](\A r \in Requests : DoneIsFinal(r))
    /\ [][\A r \in Requests : HasDone(res[r].written) => res'[r] = res[r]]_vars

C6_Witness ==
    \E r \in Requests :
        /\ outcome[r] = "completed"
        /\ Len(res[r].written) = 3
        /\ IsDoneFrame(res[r].written[3])
        /\ res[r].ended

(* -------------------------------- C7 ------------------------------------ *)
\* C7: after the downstream client has disconnected, the handler pulls no
\* further fragment from the upstream stream.
C7_AbandonOnDisconnect ==
    [][\A r \in Requests : ~client[r].open => pulls'[r] = pulls[r]]_vars

(* -------------------------------- C8 ------------------------------------ *)
\* the request reached the handler with a question
IsValid(r) == pc[r] # "idle" /\ body[r].parsed /\ ~IsEmpty(body[r].question)

\* the response of r is determined by r's own input and upstream stream
OwnStreamOnly(r) ==
    LET fs == FragmentsOf(upstream[r])
        w == res[r].written
    IN /\ CarriesFragments(w, fs)
       /\ Len(w) = Len(fs) + (IF outcome[r] = "completed" THEN 1 ELSE 0)
       /\ outcome[r] = "completed" => IsDoneFrame(w[Len(w)])
       /\ IsPrefix(client[r].received, w)
       /\ Len(call[r]) = (IF IsValid(r) THEN 1 ELSE 0)
       /\ res[r].status = (IF pc[r] = "idle" \/ IsValid(r) THEN 200
                           ELSE IF body[r].parsed THEN 400 ELSE 500)

RequestState(r) ==
    <<pc[r], body[r], call[r], pulls[r], upstream[r], outcome[r], res[r], client[r]>>

\* C8: under any interleaving of concurrent requests, each response carries
\* the fragments of its own upstream in receipt order and nothing else,
\* each valid request makes exactly one upstream call, and a step of one
\* request (a failure or rejection included) changes no other request.
C8_Isolation ==
    /\ [](\A r \in Requests : OwnStreamOnly(r))
    /\ [][Cardinality({r \in Requests : RequestState(r)' # RequestState(r)}) <= 1]_vars

C8_Witness ==
    \E r1, r2 \in Requests :
        /\ r1 # r2
        /\ outcome[r1] = "failed"
        /\ FragmentsOf(upstream[r1]) = << FragA >>
        /\ outcome[r2] = "completed"
        /\ FragmentsOf(upstream[r2]) = << FragB, FragA >>
        /\ Len(client[r2].received) = 3

(* -------------------------------- C9 ------------------------------------ *)
\* a chunk whose first choice carries no content or an empty content
IsEmptyChunk(chunk) == chunk.choices # "undefined" /\ ~IsFragment(chunk)

ChunkFrames(w) == SelectSeq(w, IsChunkFrame)

\* C9: a chunk with no delta content or an empty content writes nothing and
\* leaves the stream open; the chunk events written are as many as the chunks
\* with non-empty content and none carries an empty string; a chunk without a
\* choices list is the last one consumed: the handler stops pulling, writes
\* nothing more and, once the iterator is closed, ends the response without a
\* done marker or JSON payload.
C9_EmptyContent ==
    \A r \in Requests :
        LET up == upstream[r]
            w == res[r].written
        IN /\ Len(ChunkFrames(w)) = Len(FragmentsOf(up))
           /\ \A i \in 1..Len(w) : IsChunkFrame(w[i]) => ChunkText(w[i]) # <<>>
           /\ (up # <<>> /\ IsEmptyChunk(up[Len(up)]) /\ outcome[r] = "none") =>
                 (pc[r] = "streaming" /\ ~res[r].ended /\ pulls[r] = Len(up) + 1)
           /\ \A i \in 1..Len(up) :
                 up[i].choices = "undefined" =>
                     /\ i = Len(up)
                     /\ pc[r] \in {"returning", "closed"}
                     /\ pc[r] = "closed" <=> res[r].ended
                     /\ pulls[r] = Len(up)
                     /\ outcome[r] = "none"
                     /\ Len(w) = Len(FragmentsOf(up))
                     /\ res[r].json = NoJson

C9_Witness ==
    \E r \in Requests :
        /\ upstream[r] = << Delta(Content(<<>>)), Delta(Content(FragA)), NoChoices >>
        /\ pc[r] = "closed"
        /\ Len(res[r].written) = 1

(* -------------------------------- C10 ----------------------------------- *)
\* the three ways the handler closes a response
ClosedByRejection(r) ==
    res[r].status = 400 /\ res[r].json = RequiredError /\ res[r].written = <<>>

ClosedByDone(r) ==
    /\ res[r].status = 200 /\ res[r].json = NoJson
    /\ res[r].written # <<>> /\ IsDoneFrame(res[r].written[Len(res[r].written)])

ClosedByCatch(r) ==
    res[r].status = 200 /\ res[r].json = NoJson /\ ~HasDone(res[r].written)

OnePath(r) ==
    Cardinality({i \in 1..3 : \/ i = 1 /\ ClosedByRejection(r)
                              \/ i = 2 /\ ClosedByDone(r)
                              \/ i = 3 /\ ClosedByCatch(r)}) = 1

\* the handler of r was entered (express.json() parsed the body)
HandlerRan(r) == pc[r] # "idle" /\ body[r].parsed

\* C10: every request the handler received gets its response closed once its
\* upstream call has completed or failed (a call that yielded a chunk without
\* choices is closed once the iterator's return() has settled), on exactly one
\* of the three paths; a closed response is never written again; the catch-all
\* 500 middleware never answers a request that reached the handler.
C10_Termination ==
    /\ [](\A r \in Requests :
             /\ pc[r] = "closed" <=> res[r].ended
             /\ HandlerRan(r) =>
                   /\ res[r].ended => OnePath(r)
                   /\ res[r].status # 500
                   /\ res[r].json # InternalError)
    /\ [][\A r \in Requests : res[r].ended => res'[r] = res[r]]_vars
    /\ \A r \in 1..MaxRequests :
          HandlerRan(r) ~> (pc[r] = "returning" \/ (pc[r] = "closed" /\ res[r].ended))

C10_Witness ==
    /\ \A r \in Requests : pc[r] = "closed" /\ res[r].ended /\ HandlerRan(r)
    /\ \E r \in Requests : ClosedByRejection(r)
    /\ \E r \in Requests : ClosedByCatch(r) /\ outcome[r] = "failed"
====
